---- MODULE Spec2Model ----
(***************************************************************************)
(* A model of the relationship-map client (human-link-map).                *)
(*                                                                         *)
(* The KnowledgeMap component (src/unnamed/part_000, lines 658-1316) keeps *)
(* two React state arrays, persons and relations, changes them in its      *)
(* event handlers and fires calls at the backing store (supabase) whose    *)
(* replies arrive in any order.  React state arrays are sequences here; a  *)
(* handler's synchronous part is one action and each awaited reply is      *)
(* another.  JS strings are TLA+ strings; an optional value is a tuple of  *)
(* length 0 (undefined / null) or 1.                                       *)
(***************************************************************************)
EXTENDS Integers, Sequences, FiniteSets, TLC

----------------------------------------------------------------------------
(* Bounds of the model. *)

\* gestures of one session that change the store or call the backing store
MaxSteps == 2

----------------------------------------------------------------------------
(* Values. *)

Proximities == {"fort", "moyen", "faible"}

allCategories ==
  <<"Partenaire", "Investisseur", "Autre", "Organisme de formation", "Advisor">>

Undef == <<>>
Def(v) == <<v>>
IsDef(o) == o # <<>>

\* a ?? b
Coalesce(o, d) == IF IsDef(o) THEN o[1] ELSE d

Range(s) == {s[i] : i \in 1..Len(s)}

RECURSIVE SelectSeqBy(_, _)
\* Array.prototype.filter with the predicate given as the set of kept values
SelectSeqBy(s, keep) ==
  IF s = <<>> THEN <<>>
  ELSE IF Head(s) \in keep THEN <<Head(s)>> \o SelectSeqBy(Tail(s), keep)
       ELSE SelectSeqBy(Tail(s), keep)

\* the ids genId("p") and genId("rel") return, in the order of the calls
PersonIdPool == <<"p-1", "p-2", "p-3", "p-4", "p-5", "p-6", "p-7", "p-8">>
RelationIdPool ==
  <<"rel-1", "rel-2", "rel-3", "rel-4", "rel-5", "rel-6", "rel-7", "rel-8">>

\* what the person form submits (firstName, lastName, company, comment,
\* proximity, categories); the form's text fields are always strings
DataMarie ==
  [firstName |-> "Marie", lastName |-> "Dupont", company |-> Def("Acme Corp"),
   comment |-> Def(""), proximity |-> "fort", categories |-> <<"Partenaire">>]
DataJean ==
  [firstName |-> "Jean", lastName |-> "Martin", company |-> Def(""),
   comment |-> Def(""), proximity |-> "moyen", categories |-> <<>>]
DataNoFirstName ==
  [firstName |-> "", lastName |-> "Martin", company |-> Def(""),
   comment |-> Def(""), proximity |-> "moyen", categories |-> <<>>]
DataNoLastName ==
  [firstName |-> "Jean", lastName |-> "", company |-> Def(""),
   comment |-> Def(""), proximity |-> "moyen", categories |-> <<>>]
FormInputs == {DataMarie, DataJean, DataNoFirstName, DataNoLastName}

\* node positions a drag can end at
DragPositions == {<<10, 20>>}

NoConnection == <<>>
NoSelection == <<>>
NoUser == <<>>

----------------------------------------------------------------------------
VARIABLES
  persons,         \* useState<Person[]>            part_000:741
  relations,       \* useState<Relation[]>          part_000:742
  pendingConnect,  \* useState<Connection | null>   part_000:866
  selectedNode,    \* useState<Person | null>       part_000:864
  selectedEdge,    \* useState<Relation | null>     part_000:865
  dbPersons,       \* rows of knowledge_persons
  dbRelations,     \* rows of knowledge_relations
  calls,           \* backing-store calls in flight, each with its continuation
  load,            \* where the initial load effect stands, and its pData
  reading,         \* documents the FileReader has not delivered yet
  search,          \* useState("")                 part_000:867
  proximityFilter, \* useState("all")              part_000:868
  categoryFilter,  \* useState<PersonCategory[]>   part_000:869
  nGen,            \* genId calls made so far, per prefix
  steps,           \* gestures made so far
  user,            \* useState<User | null>         useKnowledgeMapData.ts:14
  loading,         \* useState(true)                useKnowledgeMapData.ts:15
  lastOp           \* the handler or reply that ran last, and what it reported

vars ==
  <<persons, relations, pendingConnect, selectedNode, selectedEdge,
    dbPersons, dbRelations, calls, load, reading,
    search, proximityFilter, categoryFilter, nGen, steps, user, loading,
    lastOp>>

store == <<persons, relations>>
ui == <<pendingConnect, selectedNode, selectedEdge>>
db == <<dbPersons, dbRelations>>
filters == <<search, proximityFilter, categoryFilter>>
session == <<user, loading>>

----------------------------------------------------------------------------
(* Derived values. *)

PersonIds(ps) == {ps[i].id : i \in 1..Len(ps)}
RelationIds(rs) == {rs[i].id : i \in 1..Len(rs)}

\* genId(prefix): a value not returned before
genId(prefix) ==
  IF prefix = "p" THEN PersonIdPool[nGen.p + 1] ELSE RelationIdPool[nGen.rel + 1]

Bump(prefix) ==
  IF prefix = "p" THEN [nGen EXCEPT !.p = @ + 1] ELSE [nGen EXCEPT !.rel = @ + 1]

\* one more gesture that changes the store or calls the backing store
Counted == steps < MaxSteps /\ steps' = steps + 1

\* the interaction controller's state
ControllerState ==
  IF pendingConnect = NoConnection THEN "Idle" ELSE "AwaitingConnectionProximity"

\* a modal dialog is open: the canvas and the toolbar take no gesture
DialogOpen ==
  \/ pendingConnect # NoConnection
  \/ selectedNode # NoSelection
  \/ selectedEdge # NoSelection

----------------------------------------------------------------------------
(* Rows of the backing store and their conversions. *)

\* the row onAddPerson inserts
PersonRow(p) ==
  [id |-> p.id, first_name |-> p.firstName, last_name |-> p.lastName,
   company |-> p.company, comment |-> p.comment, proximity |-> p.proximity,
   position_x |-> IF IsDef(p.position) THEN Def(p.position[1]) ELSE Undef,
   position_y |-> IF IsDef(p.position) THEN Def(p.position[2]) ELSE Undef,
   categories |-> p.categories]

\* the row commitConnection inserts
RelationRow(r) ==
  [id |-> r.id, source_id |-> r.sourceId, target_id |-> r.targetId,
   proximity |-> r.proximity]

\* the Person the initial load makes of a row
PersonOfRow(row) ==
  [id |-> row.id, firstName |-> row.first_name, lastName |-> row.last_name,
   company |-> row.company, comment |-> row.comment, proximity |-> row.proximity,
   categories |-> row.categories,
   position |-> IF IsDef(row.position_x) /\ IsDef(row.position_y)
                THEN <<row.position_x[1], row.position_y[1]>> ELSE Undef]

\* the Relation the initial load makes of a row
RelationOfRow(row) ==
  [id |-> row.id, sourceId |-> row.source_id, targetId |-> row.target_id,
   proximity |-> row.proximity]

\* { ...p, ...data }
Spread(p, data) ==
  [f \in DOMAIN p \cup DOMAIN data |-> IF f \in DOMAIN data THEN data[f] ELSE p[f]]

MapSeq(s, F(_)) == [i \in 1..Len(s) |-> F(s[i])]

\* every order in which a select may return the rows of a table
Orders(rows) ==
  {s \in [1..Cardinality(rows) -> rows] :
     \A i, j \in 1..Cardinality(rows) : i # j => s[i] # s[j]}

DbPersonIds == {row.id : row \in dbPersons}
DbRelationIds == {row.id : row \in dbRelations}

\* Whether the backing store accepts the call: the primary keys, and the two
\* foreign keys of knowledge_relations (types.ts:86-101).
DbAccepts(c) ==
  CASE c.op = "insertPerson" -> c.with.id \notin DbPersonIds
    [] c.op = "insertRelation" ->
         /\ c.with.id \notin DbRelationIds
         /\ c.with.source_id \in DbPersonIds
         /\ c.with.target_id \in DbPersonIds
    [] OTHER -> TRUE

\* knowledge_persons after the call took effect
DbPersonsAfter(c) ==
  CASE c.op = "insertPerson" -> dbPersons \cup {c.with}
    [] c.op = "updatePerson" ->
         {IF row.id = c.with.id THEN Spread(row, c.with.fields) ELSE row :
            row \in dbPersons}
    [] c.op = "updatePosition" ->
         {IF row.id = c.with.id
          THEN [row EXCEPT !.position_x = Def(c.with.x), !.position_y = Def(c.with.y)]
          ELSE row : row \in dbPersons}
    [] c.op = "deletePerson" -> {row \in dbPersons : row.id # c.with}
    [] c.op = "resetPersons" -> {row \in dbPersons : row.id \notin c.with}
    [] OTHER -> dbPersons

\* knowledge_relations after the call took effect.  The foreign keys let no
\* relation row outlive the person row it references: a delete of a person
\* row that took effect took those rows with it (a store that refuses such a
\* delete instead is the outcome "error" of Reply, which changes no row)
DbRelationsAfter(c) ==
  CASE c.op = "insertRelation" -> dbRelations \cup {c.with}
    [] c.op = "updateRelation" ->
         {IF row.id = c.with.id THEN [row EXCEPT !.proximity = c.with.proximity]
          ELSE row : row \in dbRelations}
    [] c.op = "deleteRelation" -> {row \in dbRelations : row.id # c.with}
    [] c.op = "resetRelations" -> {row \in dbRelations : row.id \notin c.with.relIds}
    [] c.op = "deletePerson" ->
         {row \in dbRelations : row.source_id # c.with /\ row.target_id # c.with}
    [] c.op = "resetPersons" ->
         {row \in dbRelations :
            row.source_id \notin c.with /\ row.target_id \notin c.with}
    [] OTHER -> dbRelations

Call(op, with) == [op |-> op, with |-> with]
\* what lastOp keeps of a step: its name, its inputs and the notification shown
Op(op, arg, toast) == [op |-> op, arg |-> arg, toast |-> toast]

\* the steps that are not gestures of the user
Deliveries == {"mount", "reply", "loadPersonsReply", "loadRelationsReply", "readerOnload"}

----------------------------------------------------------------------------
(* The spreadsheet document: its sheets by name, and each sheet's rows as    *)
(* sheet_to_json returns them.  A cell is missing (Undef) or holds a value;  *)
(* an x or y cell holds <<type, value>>; a categories cell holds the         *)
(* segments between the "|" of its text (so "" is <<"">>).                   *)

Cell(v) == <<v>>
NumberCell(n) == <<"number", n>>
StringCell(str) == <<"string", str>>

PRow(id, firstName, lastName, company, comment, proximity, categories, x, y) ==
  [id |-> id, firstName |-> firstName, lastName |-> lastName, company |-> company,
   comment |-> comment, proximity |-> proximity, categories |-> categories,
   x |-> x, y |-> y]

RRow(id, sourceId, targetId, proximity) ==
  [id |-> id, sourceId |-> sourceId, targetId |-> targetId, proximity |-> proximity]

Doc(sheets, pRows, rRows) == [sheets |-> sheets, pRows |-> pRows, rRows |-> rRows]

\* two persons and a relation between them, in another document's ids
DocTwo ==
  Doc({"Persons", "Relations"},
      <<PRow(Cell("x-1"), Cell("Zoe"), Cell("Petit"), Cell("Acme Corp"), Undef,
             Cell("faible"), Cell(<<"Advisor", "Autre">>), NumberCell(5), NumberCell(6)),
        PRow(Cell("x-2"), Cell("Ali"), Undef, Undef, Undef,
             Undef, Undef, StringCell("5"), NumberCell(6))>>,
      <<RRow(Cell("xr-1"), Cell("x-1"), Cell("x-2"), Cell("fort"))>>)

\* a relation row without endpoints, a proximity that is no literal, no ids
DocLoose ==
  Doc({"Persons", "Relations"},
      <<PRow(Undef, Cell("Lea"), Cell("Roy"), Cell(""), Cell(""),
             Cell("proche"), Cell(<<"">>), Undef, Undef)>>,
      <<RRow(Undef, Undef, Cell("x-1"), Undef)>>)

DocEmpty == Doc({"Persons", "Relations"}, <<>>, <<>>)

DocNoRelations ==
  Doc({"Persons"},
      <<PRow(Cell("x-1"), Cell("Zoe"), Cell("Petit"), Undef, Undef,
             Cell("fort"), Undef, Undef, Undef)>>,
      <<>>)

DocNoPersons ==
  Doc({"Relations"}, <<>>, <<RRow(Cell("xr-1"), Cell("x-1"), Cell("x-2"), Cell("fort"))>>)

ImportDocs == {DocTwo, DocLoose, DocEmpty, DocNoRelations, DocNoPersons}

\* the cells without a value among the given ones: the genId calls of a sheet
Missing(rows) == Cardinality({i \in 1..Len(rows) : ~IsDef(rows[i].id)})

\* the number of rows before row i whose id cell is missing
MissingBefore(rows, i) == Cardinality({j \in 1..(i - 1) : ~IsDef(rows[j].id)})

\* row -> Person of importExcel; n is the number of genId("p") calls made before
ImportedPerson(row, n) ==
  [id |-> IF IsDef(row.id) THEN row.id[1] ELSE PersonIdPool[n + 1],
   firstName |-> Coalesce(row.firstName, ""),
   lastName |-> Coalesce(row.lastName, ""),
   company |-> IF IsDef(row.company) /\ row.company[1] # ""
               THEN Def(row.company[1]) ELSE Undef,
   comment |-> IF IsDef(row.comment) /\ row.comment[1] # ""
               THEN Def(row.comment[1]) ELSE Undef,
   proximity |-> Coalesce(row.proximity, "moyen"),
   categories |-> IF IsDef(row.categories) /\ row.categories[1] # <<"">>
                  THEN row.categories[1] ELSE <<>>,
   position |-> IF /\ IsDef(row.x) /\ row.x[1] = "number"
                   /\ IsDef(row.y) /\ row.y[1] = "number"
                THEN <<row.x[2], row.y[2]>> ELSE Undef]

\* row -> Relation of importExcel
ImportedRelation(row, n) ==
  [id |-> IF IsDef(row.id) THEN row.id[1] ELSE RelationIdPool[n + 1],
   sourceId |-> Coalesce(row.sourceId, ""),
   targetId |-> Coalesce(row.targetId, ""),
   proximity |-> Coalesce(row.proximity, "moyen")]

importedPersons(doc) ==
  [i \in 1..Len(doc.pRows) |->
     ImportedPerson(doc.pRows[i], nGen.p + MissingBefore(doc.pRows, i))]

importedRelations(doc) ==
  [i \in 1..Len(doc.rRows) |->
     ImportedRelation(doc.rRows[i], nGen.rel + MissingBefore(doc.rRows, i))]

----------------------------------------------------------------------------
(* The handlers of the KnowledgeMap component. *)

\* onConnect as it would be if it added the edge at once, as addEdge does
onConnectAddsEdge(source, target) ==
  /\ ~DialogOpen
  /\ pendingConnect' = [source |-> source, target |-> target]
  /\ relations' = Append(relations, [id |-> genId("rel"), sourceId |-> source,
                                     targetId |-> target, proximity |-> "moyen"])
  /\ nGen' = Bump("rel")
  /\ lastOp' = Op("onConnect", <<source, target>>, "")
  /\ UNCHANGED <<persons, selectedNode, selectedEdge, db, calls, load, reading,
                 filters, session, steps>>

\* onConnect, called by the canvas with two of its nodes
onConnect(source, target) ==
  /\ ~DialogOpen
  /\ pendingConnect' = [source |-> source, target |-> target]
  /\ lastOp' = Op("onConnect", <<source, target>>, "")
  /\ UNCHANGED <<store, selectedNode, selectedEdge, db, calls, load, reading,
                 filters, session, nGen, steps>>

\* the dismissal as it would be if it forgot the pending pair's reset
cancelKeepsPending ==
  /\ pendingConnect # NoConnection
  /\ lastOp' = Op("cancelConnection", <<>>, "")
  /\ UNCHANGED <<store, ui, db, calls, load, reading, filters, session, nGen, steps>>

\* the pending-connection dialog is dismissed
cancelConnection ==
  /\ pendingConnect # NoConnection
  /\ pendingConnect' = NoConnection
  /\ lastOp' = Op("cancelConnection", <<>>, "")
  /\ UNCHANGED <<store, selectedNode, selectedEdge, db, calls, load, reading,
                 filters, session, nGen, steps>>

\* commitConnection up to its await
commitConnection(proximity) ==
  /\ Counted
  /\ pendingConnect # NoConnection
  /\ LET newRel == [id |-> genId("rel"), sourceId |-> pendingConnect.source,
                    targetId |-> pendingConnect.target, proximity |-> proximity]
     IN /\ relations' = Append(relations, newRel)
        /\ calls' = calls \cup {Call("insertRelation", RelationRow(newRel))}
        /\ lastOp' = Op("commitConnection", <<newRel, pendingConnect>>, "")
  /\ nGen' = Bump("rel")
  /\ UNCHANGED <<persons, ui, db, load, reading, filters, session>>

\* the form's check as it would be if it looked at the first name only
FormValidFirstNameOnly(data) == data.firstName # ""

\* the form's check of the required fields
FormValid(data) == data.firstName # "" /\ data.lastName # ""

\* onAddPerson up to its await
onAddPerson(data) ==
  /\ LET p == Spread([id |-> genId("p"), position |-> Undef], data)
     IN /\ persons' = Append(persons, p)
        /\ calls' = calls \cup {Call("insertPerson", PersonRow(p))}
        /\ lastOp' = Op("onAddPerson", <<p>>, "")
  /\ nGen' = Bump("p")
  /\ UNCHANGED <<relations, ui, db, load, reading, filters, session>>

\* onUpdatePerson as it would be if it gave the data to every person
onUpdatePersonAll(id, data) ==
  /\ persons' = [i \in 1..Len(persons) |->
                   Spread(persons[i], data)]
  /\ calls' = calls \cup {Call("updatePerson", [id |-> id, fields |->
                 [first_name |-> data.firstName, last_name |-> data.lastName,
                  company |-> data.company, comment |-> data.comment,
                  proximity |-> data.proximity, categories |-> data.categories]])}
  /\ lastOp' = Op("onUpdatePerson", <<id, data>>, "")
  /\ UNCHANGED <<relations, ui, db, load, reading, filters, session, nGen>>

\* onUpdatePerson up to its await
onUpdatePerson(id, data) ==
  /\ persons' = [i \in 1..Len(persons) |->
                   IF persons[i].id = id THEN Spread(persons[i], data) ELSE persons[i]]
  /\ calls' = calls \cup {Call("updatePerson", [id |-> id, fields |->
                 [first_name |-> data.firstName, last_name |-> data.lastName,
                  company |-> data.company, comment |-> data.comment,
                  proximity |-> data.proximity, categories |-> data.categories]])}
  /\ lastOp' = Op("onUpdatePerson", <<id, data>>, "")
  /\ UNCHANGED <<relations, ui, db, load, reading, filters, session, nGen>>

\* the submit handler of the person form, around onAddPerson or onUpdatePerson
PersonFormSubmit(data, onSubmit) ==
  IF ~FormValid(data)
  THEN /\ lastOp' = Op("PersonForm", <<data>>, "Champs requis")
       /\ UNCHANGED <<store, ui, db, calls, load, reading, filters, session, nGen>>
  ELSE onSubmit

\* the add form of the side sheet is submitted
SubmitAdd(data) ==
  /\ Counted
  /\ ~DialogOpen
  /\ PersonFormSubmit(data, onAddPerson(data))

\* the form of the edit dialog is submitted
SubmitUpdate(data) ==
  /\ Counted
  /\ selectedNode # NoSelection
  /\ PersonFormSubmit(data, onUpdatePerson(selectedNode[1], data))

\* onDeletePerson as it would be without its second filter
onDeletePersonNoCascade(id) ==
  /\ persons' = SelectSeqBy(persons, {p \in Range(persons) : p.id # id})
  /\ calls' = calls \cup {Call("deletePerson", id)}
  /\ lastOp' = Op("onDeletePerson", <<id, 0>>, "")
  /\ UNCHANGED <<relations, ui, db, load, reading, filters, session, nGen>>

\* onDeletePerson up to its await
onDeletePerson(id) ==
  /\ persons' = SelectSeqBy(persons, {p \in Range(persons) : p.id # id})
  /\ relations' = SelectSeqBy(relations,
                    {r \in Range(relations) : r.sourceId # id /\ r.targetId # id})
  /\ calls' = calls \cup {Call("deletePerson", id)}
  /\ lastOp' = Op("onDeletePerson", <<id, Len(relations) - Len(relations')>>, "")
  /\ UNCHANGED <<ui, db, load, reading, filters, session, nGen>>

\* the delete button of the edit dialog
ClickDeletePerson ==
  /\ Counted
  /\ selectedNode # NoSelection
  /\ onDeletePerson(selectedNode[1])

\* onNodeClick: only the id of the selected person is read afterwards
onNodeClick(id) ==
  /\ ~DialogOpen
  /\ selectedNode' = Def(id)
  /\ lastOp' = Op("onNodeClick", <<id>>, "")
  /\ UNCHANGED <<store, pendingConnect, selectedEdge, db, calls, load, reading,
                 filters, session, nGen, steps>>

\* onEdgeClick: only the id of the selected relation is read afterwards
onEdgeClick(id) ==
  /\ ~DialogOpen
  /\ selectedEdge' = IF id \in RelationIds(relations) THEN Def(id) ELSE selectedEdge
  /\ lastOp' = Op("onEdgeClick", <<id>>, "")
  /\ UNCHANGED <<store, pendingConnect, selectedNode, db, calls, load, reading,
                 filters, session, nGen, steps>>

\* an edit dialog is dismissed
closeDialog ==
  /\ selectedNode # NoSelection \/ selectedEdge # NoSelection
  /\ selectedNode' = NoSelection
  /\ selectedEdge' = NoSelection
  /\ lastOp' = Op("closeDialog", <<>>, "")
  /\ UNCHANGED <<store, pendingConnect, db, calls, load, reading, filters, session, nGen, steps>>

\* the proximity selector of the relation dialog, up to its await
changeRelationProximity(proximity) ==
  /\ Counted
  /\ selectedEdge # NoSelection
  /\ relations' = [i \in 1..Len(relations) |->
                     IF relations[i].id = selectedEdge[1]
                     THEN [relations[i] EXCEPT !.proximity = proximity]
                     ELSE relations[i]]
  /\ calls' = calls \cup
       {Call("updateRelation", [id |-> selectedEdge[1], proximity |-> proximity])}
  /\ lastOp' = Op("changeRelationProximity", <<selectedEdge[1], proximity>>, "")
  /\ UNCHANGED <<persons, ui, db, load, reading, filters, session, nGen>>

\* the delete button of the relation dialog, up to its await
clickDeleteRelation ==
  /\ Counted
  /\ selectedEdge # NoSelection
  /\ calls' = calls \cup {Call("deleteRelation", selectedEdge[1])}
  /\ lastOp' = Op("clickDeleteRelation", <<selectedEdge[1]>>, "")
  /\ UNCHANGED <<store, ui, db, load, reading, filters, session, nGen>>

\* onNodeDragStop up to its await
onNodeDragStop(id, position) ==
  /\ Counted
  /\ ~DialogOpen
  /\ persons' = [i \in 1..Len(persons) |->
                   IF persons[i].id = id
                   THEN [persons[i] EXCEPT !.position = position] ELSE persons[i]]
  /\ calls' = calls \cup
       {Call("updatePosition", [id |-> id, x |-> position[1], y |-> position[2]])}
  /\ lastOp' = Op("onNodeDragStop", <<id, position>>, "")
  /\ UNCHANGED <<relations, ui, db, load, reading, filters, session, nGen>>

\* the reset button, confirmed, up to its first await
resetAll ==
  /\ Counted
  /\ ~DialogOpen
  /\ LET relIds == RelationIds(relations)
         personIds == PersonIds(persons)
     IN calls' = calls \cup
          (IF relIds # {}
           THEN {Call("resetRelations", [relIds |-> relIds, personIds |-> personIds])}
           ELSE IF personIds # {} THEN {Call("resetPersons", personIds)} ELSE {})
  /\ persons' = <<>>
  /\ relations' = <<>>
  /\ lastOp' = Op("resetAll", <<>>, "")
  /\ UNCHANGED <<ui, db, load, reading, filters, session, nGen>>

----------------------------------------------------------------------------
(* Replies of the backing store.  A call ends "ok" (it took effect), "error" *)
(* (supabase returns { error }, nothing took effect) or "throw" (the promise *)
(* rejects); the handler then runs on from its await.                        *)

Outcomes == {"ok", "error", "throw"}

\* Only the reset handler and the load effect run on differently after a
\* rejected promise than after { error }: elsewhere the catch block logs and
\* the handler runs on as it does after { error }.
OutcomesOf(c) == IF c.op = "resetRelations" THEN Outcomes ELSE {"ok", "error"}

\* the rest of the handler that awaited call c
Continue(c, outcome) ==
  /\ pendingConnect' = IF c.op = "insertRelation" THEN NoConnection ELSE pendingConnect
  /\ selectedNode' = IF c.op = "deletePerson" THEN NoSelection ELSE selectedNode
  /\ selectedEdge' = IF c.op = "deleteRelation" THEN NoSelection ELSE selectedEdge
  /\ relations' =
       IF c.op = "deleteRelation"
       THEN SelectSeqBy(relations, {r \in Range(relations) : r.id # c.with})
       ELSE relations
  /\ calls' =
       (calls \ {c}) \cup
       (IF c.op = "resetRelations" /\ outcome # "throw" /\ c.with.personIds # {}
        THEN {Call("resetPersons", c.with.personIds)} ELSE {})
  /\ lastOp' = Op("reply", <<c.op, outcome>>,
                  CASE c.op = "insertRelation" -> "Lien ajouté"
                    [] c.op = "insertPerson" -> "Personne ajoutée"
                    [] c.op = "updatePerson" -> "Modifié"
                    [] OTHER -> "")
  /\ UNCHANGED persons

\* a call in flight ends
Reply(c, outcome) ==
  /\ c \in calls
  /\ outcome = "ok" => DbAccepts(c)
  /\ dbPersons' = IF outcome = "ok" THEN DbPersonsAfter(c) ELSE dbPersons
  /\ dbRelations' = IF outcome = "ok" THEN DbRelationsAfter(c) ELSE dbRelations
  /\ Continue(c, outcome)
  /\ UNCHANGED <<load, reading, filters, session, nGen, steps>>

----------------------------------------------------------------------------
(* The initial load effect: two selects awaited one after the other, then    *)
(* setPersons and setRelations for the data that came.                       *)

\* the first select ends
loadPersonsReply(outcome, rows) ==
  /\ load.pc = "persons"
  /\ load' = IF outcome = "throw" THEN [pc |-> "done", pData |-> Undef]
             ELSE [pc |-> "relations",
                   pData |-> IF outcome = "ok" THEN Def(rows) ELSE Undef]
  /\ lastOp' = Op("loadPersonsReply", <<outcome>>, "")
  /\ UNCHANGED <<store, ui, db, calls, reading, filters, session, nGen, steps>>

\* the second select ends, and the effect runs to its end
loadRelationsReply(outcome, rows) ==
  /\ load.pc = "relations"
  /\ load' = [pc |-> "done", pData |-> Undef]
  /\ persons' = IF outcome # "throw" /\ IsDef(load.pData)
                THEN MapSeq(load.pData[1], PersonOfRow) ELSE persons
  /\ relations' = IF outcome = "ok" THEN MapSeq(rows, RelationOfRow) ELSE relations
  /\ lastOp' = Op("loadRelationsReply", <<outcome>>, "")
  /\ UNCHANGED <<ui, db, calls, reading, filters, session, nGen, steps>>

----------------------------------------------------------------------------
(* Import. *)

\* importExcel: the file is handed to the FileReader
importExcel(doc) ==
  /\ Counted
  /\ ~DialogOpen
  /\ reading' = reading \cup {doc}
  /\ lastOp' = Op("importExcel", <<>>, "")
  /\ UNCHANGED <<store, ui, db, calls, load, filters, session, nGen>>

\* reader.onload as it would be if it looked for the Persons sheet only
readerOnloadOneSheet(doc) ==
  /\ doc \in reading
  /\ reading' = reading \ {doc}
  /\ IF "Persons" \notin doc.sheets
     THEN /\ lastOp' = Op("readerOnload", <<doc, Len(persons)>>, "Fichier invalide")
          /\ UNCHANGED <<store, nGen>>
     ELSE /\ persons' = importedPersons(doc)
          /\ relations' = importedRelations(doc)
          /\ nGen' = [p |-> nGen.p + Missing(doc.pRows),
                      rel |-> nGen.rel + Missing(doc.rRows)]
          /\ lastOp' = Op("readerOnload", <<doc, Len(persons)>>,
                          IF "Relations" \in doc.sheets THEN "Import réussi"
                          ELSE "Fichier invalide")
  /\ UNCHANGED <<ui, db, calls, load, filters, session, steps>>

\* reader.onload as it would be if it added the rows to the store
readerOnloadMerges(doc) ==
  /\ doc \in reading
  /\ reading' = reading \ {doc}
  /\ IF "Persons" \notin doc.sheets \/ "Relations" \notin doc.sheets
     THEN /\ lastOp' = Op("readerOnload", <<doc, Len(persons)>>, "Fichier invalide")
          /\ UNCHANGED <<store, nGen>>
     ELSE /\ persons' = persons \o importedPersons(doc)
          /\ relations' = relations \o importedRelations(doc)
          /\ nGen' = [p |-> nGen.p + Missing(doc.pRows),
                      rel |-> nGen.rel + Missing(doc.rRows)]
          /\ lastOp' = Op("readerOnload", <<doc, Len(persons)>>, "Import réussi")
  /\ UNCHANGED <<ui, db, calls, load, filters, session, steps>>

\* reader.onload
readerOnload(doc) ==
  /\ doc \in reading
  /\ reading' = reading \ {doc}
  /\ IF "Persons" \notin doc.sheets \/ "Relations" \notin doc.sheets
     THEN /\ lastOp' = Op("readerOnload", <<doc, Len(persons)>>, "Fichier invalide")
          /\ UNCHANGED <<store, nGen>>
     ELSE /\ persons' = importedPersons(doc)
          /\ relations' = importedRelations(doc)
          /\ nGen' = [p |-> nGen.p + Missing(doc.pRows),
                      rel |-> nGen.rel + Missing(doc.rRows)]
          /\ lastOp' = Op("readerOnload", <<doc, Len(persons)>>, "Import réussi")
  /\ UNCHANGED <<ui, db, calls, load, filters, session, steps>>

----------------------------------------------------------------------------
(* The component after its mount: empty state, the load effect under way,    *)
(* and in the backing store whatever earlier sessions left there.            *)

SeedPersons ==
  {[id |-> "x-1", first_name |-> "Zoe", last_name |-> "Petit",
    company |-> Def("Acme Corp"), comment |-> Undef, proximity |-> "faible",
    position_x |-> Def(5), position_y |-> Def(6),
    categories |-> <<"Advisor", "Autre">>],
   [id |-> "x-2", first_name |-> "Ali", last_name |-> "", company |-> Undef,
    comment |-> Undef, proximity |-> "moyen", position_x |-> Undef,
    position_y |-> Undef, categories |-> <<>>]}

SeedRelations ==
  {[id |-> "xr-1", source_id |-> "x-1", target_id |-> "x-2", proximity |-> "fort"]}

Init ==
  /\ persons = <<>>
  /\ relations = <<>>
  /\ pendingConnect = NoConnection
  /\ selectedNode = NoSelection
  /\ selectedEdge = NoSelection
  /\ \/ dbPersons = {} /\ dbRelations = {}
     \/ dbPersons = SeedPersons /\ dbRelations = SeedRelations
  /\ calls = {}
  /\ load = [pc |-> "persons", pData |-> Undef]
  /\ reading = {}
  /\ search = ""
  /\ proximityFilter = "all"
  /\ categoryFilter = <<>>
  /\ nGen = [p |-> 0, rel |-> 0]
  /\ steps = 0
  /\ user = NoUser
  /\ loading = FALSE
  /\ lastOp = Op("mount", <<>>, "")

Next ==
  \/ \E s, t \in PersonIds(persons) : onConnect(s, t)
  \/ cancelConnection
  \/ \E proximity \in Proximities : commitConnection(proximity)
  \/ \E data \in FormInputs : SubmitAdd(data)
  \/ \E data \in FormInputs : SubmitUpdate(data)
  \/ ClickDeletePerson
  \/ \E id \in PersonIds(persons) : onNodeClick(id)
  \/ \E id \in RelationIds(relations) : onEdgeClick(id)
  \/ closeDialog
  \/ \E proximity \in Proximities : changeRelationProximity(proximity)
  \/ clickDeleteRelation
  \/ \E id \in PersonIds(persons), position \in DragPositions :
       onNodeDragStop(id, position)
  \/ resetAll
  \/ \E doc \in ImportDocs : importExcel(doc)
  \/ \E c \in calls : \E outcome \in OutcomesOf(c) : Reply(c, outcome)
  \/ \E outcome \in Outcomes, rows \in Orders(dbPersons) :
       loadPersonsReply(outcome, rows)
  \/ \E outcome \in Outcomes, rows \in Orders(dbRelations) :
       loadRelationsReply(outcome, rows)
  \/ \E doc \in reading : readerOnload(doc)

Spec == Init /\ [][Next]_vars

\* what the event loop runs without a gesture: the continuation of an awaited
\* call, of the initial load, and reader.onload
Deliver ==
  \/ \E c \in calls : \E outcome \in OutcomesOf(c) : Reply(c, outcome)
  \/ \E outcome \in Outcomes, rows \in Orders(dbPersons) :
       loadPersonsReply(outcome, rows)
  \/ \E outcome \in Outcomes, rows \in Orders(dbRelations) :
       loadRelationsReply(outcome, rows)
  \/ \E doc \in reading : readerOnload(doc)

\* the component with every pending continuation run in the end; the user may
\* stop making gestures at any moment
SpecLive == Spec /\ WF_vars(Deliver)

----------------------------------------------------------------------------
(* The claims about the store and the interaction controller. *)

Last(s) == s[Len(s)]

References(r, id) == r.sourceId = id \/ r.targetId = id

\* C1: in every reachable state, the sourceId and the targetId of every stored
\* relation are ids of persons in the store.
C1_RelationsReferencePersons ==
  \A i \in 1..Len(relations) :
    /\ relations[i].sourceId \in PersonIds(persons)
    /\ relations[i].targetId \in PersonIds(persons)

\* C2: right after onDeletePerson(id) the store holds no person with that id
\* and no relation whose sourceId or targetId is that id.
C2_DeleteCascades ==
  lastOp.op = "onDeletePerson" =>
    /\ lastOp.arg[1] \notin PersonIds(persons)
    /\ \A i \in 1..Len(relations) : ~References(relations[i], lastOp.arg[1])

\* a person that relations referenced has just been deleted, another is left
C2_Witness ==
  /\ lastOp.op = "onDeletePerson"
  /\ lastOp.arg[2] > 0
  /\ persons # <<>>

\* C3: a relation is never created with a sourceId or targetId that is not the
\* id of a person in the store at that moment.
C3_UnknownEndpointRejected ==
  lastOp.op = "commitConnection" =>
    /\ lastOp.arg[1].sourceId \in PersonIds(persons)
    /\ lastOp.arg[1].targetId \in PersonIds(persons)

\* C4: chooseProximity(p) with the pair (s, t) pending appends one relation
\* (s, t, p), leaves the persons alone, clears the pending pair and leaves the
\* controller Idle.
C4_CommitReturnsToIdle ==
  [][lastOp'.op = "commitConnection" =>
       /\ pendingConnect # NoConnection
       /\ Len(relations') = Len(relations) + 1
       /\ SubSeq(relations', 1, Len(relations)) = relations
       /\ Last(relations').sourceId = pendingConnect.source
       /\ Last(relations').targetId = pendingConnect.target
       /\ persons' = persons
       /\ pendingConnect' = NoConnection
       /\ ControllerState' = "Idle"]_vars

\* connect(s, t) is made in Idle, holds exactly (s, t) afterwards and leaves
\* the relations as they were
ConnectCaptures ==
  lastOp'.op = "onConnect" =>
    /\ ControllerState = "Idle"
    /\ ControllerState' = "AwaitingConnectionProximity"
    /\ pendingConnect' = [source |-> lastOp'.arg[1], target |-> lastOp'.arg[2]]
    /\ relations' = relations

\* C5 as stated: connect(s, t) captures the pair and creates no relation, and
\* while the pair is pending the relations change in no step but
\* chooseProximity.
C5_RelationsUnchangedUntilChoice ==
  [][/\ ConnectCaptures
     /\ (pendingConnect # NoConnection /\ lastOp'.op # "commitConnection")
          => relations' = relations]_vars

\* C5 as amended: connect(s, t) captures the pair and creates no relation, and
\* while the pair is pending no gesture but chooseProximity changes the
\* relations (a load result, a file read or a reply of the backing store that
\* is delivered meanwhile can).
C5_NoGestureChangesRelationsUntilChoice ==
  [][/\ ConnectCaptures
     /\ (/\ pendingConnect # NoConnection
         /\ lastOp'.op \notin Deliveries
         /\ lastOp'.op # "commitConnection")
          => relations' = relations]_vars

\* a connection is pending in a store that holds relations
C5_Witness ==
  /\ lastOp.op = "onConnect"
  /\ pendingConnect # NoConnection
  /\ relations # <<>>

\* C6: cancel clears the pending pair and leaves persons and relations as they
\* were; and a gesture creates a relation only for the pair pending at that
\* moment, so none is ever created for a cancelled one.
C6_CancelCreatesNothing ==
  [][/\ lastOp'.op = "cancelConnection" =>
          /\ ControllerState = "AwaitingConnectionProximity"
          /\ ControllerState' = "Idle"
          /\ pendingConnect' = NoConnection
          /\ persons' = persons
          /\ relations' = relations
     /\ (lastOp'.op \notin Deliveries /\ Len(relations') > Len(relations)) =>
          /\ pendingConnect # NoConnection
          /\ Len(relations') = Len(relations) + 1
          /\ Last(relations').sourceId = pendingConnect.source
          /\ Last(relations').targetId = pendingConnect.target]_vars

\* a pending connection has just been cancelled in a store that holds persons
\* and relations
C6_Witness ==
  /\ lastOp.op = "cancelConnection"
  /\ persons # <<>>
  /\ relations # <<>>

\* C9: the import of a document without its Persons or its Relations sheet
\* reports the format failure and leaves persons and relations as they were.
C9_ImportWithoutSheetChangesNothing ==
  [][(/\ lastOp'.op = "readerOnload"
      /\ lastOp'.arg[1].sheets # {"Persons", "Relations"}) =>
       /\ lastOp'.toast = "Fichier invalide"
       /\ persons' = persons
       /\ relations' = relations]_vars

\* a document without its Relations sheet was refused by a store that holds
\* persons and relations
C9_Witness ==
  /\ lastOp.op = "readerOnload"
  /\ "Relations" \notin lastOp.arg[1].sheets
  /\ lastOp.toast = "Fichier invalide"
  /\ persons # <<>>
  /\ relations # <<>>

\* cell and value agree where the row has the cell
CellIs(cell, v) == IsDef(cell) => v = cell[1]

\* C10: after a successful import the persons and the relations of the store
\* are the rows of the document, one for one and in their order: nothing of
\* the store before is left.
C10_ImportReplaces ==
  (lastOp.op = "readerOnload" /\ lastOp.toast = "Import réussi") =>
    LET doc == lastOp.arg[1] IN
    /\ Len(persons) = Len(doc.pRows)
    /\ Len(relations) = Len(doc.rRows)
    /\ \A i \in 1..Len(doc.pRows) :
         /\ CellIs(doc.pRows[i].id, persons[i].id)
         /\ CellIs(doc.pRows[i].firstName, persons[i].firstName)
         /\ CellIs(doc.pRows[i].lastName, persons[i].lastName)
    /\ \A i \in 1..Len(doc.rRows) :
         /\ CellIs(doc.rRows[i].id, relations[i].id)
         /\ CellIs(doc.rRows[i].sourceId, relations[i].sourceId)
         /\ CellIs(doc.rRows[i].targetId, relations[i].targetId)

\* a document with rows was imported into a store that held persons
C10_Witness ==
  /\ lastOp.op = "readerOnload"
  /\ lastOp.toast = "Import réussi"
  /\ lastOp.arg[1].pRows # <<>>
  /\ lastOp.arg[2] > 0

----------------------------------------------------------------------------
(* The filter of the canvas: what of the store is shown under a search text,
   a proximity and a list of categories.  Its three setters change the filter
   only, so it has a specification of its own, SpecFilter, over the stores
   below. *)

UpperCase == "ABCDEFGHIJKLMNOPQRSTUVWXYZÉ"
LowerCase == "abcdefghijklmnopqrstuvwxyzé"

CharAt(s, i) == SubSeq(s, i, i)

\* String.prototype.toLowerCase, on the letters above
RECURSIVE toLowerCase(_)
toLowerCase(s) ==
  IF s = "" THEN ""
  ELSE LET c == CharAt(s, 1)
           l == IF \E i \in 1..Len(UpperCase) : CharAt(UpperCase, i) = c
                THEN CharAt(LowerCase, CHOOSE i \in 1..Len(UpperCase) :
                                         CharAt(UpperCase, i) = c)
                ELSE c
       IN l \o toLowerCase(SubSeq(s, 2, Len(s)))

\* String.prototype.trim, the blank being the white space of the inputs
RECURSIVE trim(_)
trim(s) ==
  IF s = "" THEN ""
  ELSE IF CharAt(s, 1) = " " THEN trim(SubSeq(s, 2, Len(s)))
  ELSE IF CharAt(s, Len(s)) = " " THEN trim(SubSeq(s, 1, Len(s) - 1))
  ELSE s

\* Array.prototype.join
RECURSIVE join(_, _)
join(parts, sep) ==
  IF parts = <<>> THEN ""
  ELSE IF Len(parts) = 1 THEN parts[1]
  ELSE parts[1] \o sep \o join(Tail(parts), sep)

\* String.prototype.includes
includes(s, part) ==
  \E i \in 0..(Len(s) - Len(part)) : SubSeq(s, i + 1, i + Len(part)) = part

\* const term
term == toLowerCase(trim(search))

\* const hay
hay(p) ==
  toLowerCase(join(<<p.firstName, p.lastName, Coalesce(p.company, ""),
                     Coalesce(p.comment, ""), p.proximity>> \o p.categories, " "))

\* the callback of persons.filter as it would be without the lower-casing of
\* the hay
keepsPersonCaseSensitive(p) ==
  IF proximityFilter # "all" /\ p.proximity # proximityFilter THEN FALSE
  ELSE IF /\ Len(categoryFilter) # 0
          /\ ~(\E i \in 1..Len(p.categories) : p.categories[i] \in Range(categoryFilter))
       THEN FALSE
  ELSE IF term = "" THEN TRUE
  ELSE includes(join(<<p.firstName, p.lastName, Coalesce(p.company, ""),
                       Coalesce(p.comment, ""), p.proximity>> \o p.categories, " "),
                term)

\* the callback of persons.filter, return by return
keepsPerson(p) ==
  IF proximityFilter # "all" /\ p.proximity # proximityFilter THEN FALSE
  ELSE IF /\ Len(categoryFilter) # 0
          /\ ~(\E i \in 1..Len(p.categories) : p.categories[i] \in Range(categoryFilter))
       THEN FALSE
  ELSE IF term = "" THEN TRUE
  ELSE includes(hay(p), term)

filteredPersons == SelectSeq(persons, keepsPerson)

keepIds == PersonIds(filteredPersons)

\* the callback of relations.filter as it would be with || for &&
keepsRelationEitherEnd(r) == r.sourceId \in keepIds \/ r.targetId \in keepIds

\* the callback of relations.filter
keepsRelation(r) == r.sourceId \in keepIds /\ r.targetId \in keepIds

Edge(r) == [id |-> r.id, source |-> r.sourceId, target |-> r.targetId]

initialEdges == MapSeq(SelectSeq(relations, keepsRelation), Edge)

\* what can be typed in the search field
SearchInputs ==
  {"", " ", "acme", "ACME", " Acme ", "marie dupont", "ed", "FORT", "adv", "zz"}

\* the categories whose boxes are ticked and unticked
FilterCategories == {"Partenaire", "Advisor"}

setSearch(value) ==
  /\ search' = value
  /\ lastOp' = Op("setSearch", <<value>>, "")
  /\ UNCHANGED <<store, ui, db, calls, load, reading, proximityFilter,
                 categoryFilter, nGen, steps, session>>

setProximityFilter(v) ==
  /\ proximityFilter' = v
  /\ lastOp' = Op("setProximityFilter", <<v>>, "")
  /\ UNCHANGED <<store, ui, db, calls, load, reading, search, categoryFilter,
                 nGen, steps, session>>

\* onCheckedChange of the box of a category, which shows whether the list has it
onCheckedChange(cat, checked) ==
  /\ checked = (cat \notin Range(categoryFilter))
  /\ categoryFilter' =
       IF checked THEN Append(categoryFilter, cat)
       ELSE SelectSeqBy(categoryFilter, Range(categoryFilter) \ {cat})
  /\ lastOp' = Op("setCategoryFilter", <<cat, checked>>, "")
  /\ UNCHANGED <<store, ui, db, calls, load, reading, search, proximityFilter,
                 nGen, steps, session>>

PersonOf(id, data, proximity) ==
  Spread([id |-> id, position |-> Undef], [data EXCEPT !.proximity = proximity])

DataZoe ==
  [firstName |-> "Zoé", lastName |-> "Petit", company |-> Undef,
   comment |-> Undef, proximity |-> "faible", categories |-> <<"Advisor", "Autre">>]

\* two persons of proximity "fort" and three of another
FivePersons ==
  <<PersonOf("p-1", DataMarie, "fort"), PersonOf("p-2", DataJean, "moyen"),
    PersonOf("p-3", DataZoe, "fort"), PersonOf("p-4", DataZoe, "faible"),
    PersonOf("p-5", DataMarie, "moyen")>>

FiveRelations ==
  <<[id |-> "rel-1", sourceId |-> "p-1", targetId |-> "p-3", proximity |-> "fort"],
    [id |-> "rel-2", sourceId |-> "p-1", targetId |-> "p-2", proximity |-> "moyen"],
    [id |-> "rel-3", sourceId |-> "p-4", targetId |-> "p-5", proximity |-> "faible"],
    [id |-> "rel-4", sourceId |-> "p-3", targetId |-> "p-3", proximity |-> "fort"]>>

\* the stores the filter is put on: the five persons; what the import of
\* DocLoose leaves, a relation of which has no source; no person at all
FilterStores ==
  {<<FivePersons, FiveRelations>>,
   <<importedPersons(DocLoose), importedRelations(DocLoose)>>,
   <<<<>>, <<>>>>}

InitFilter ==
  /\ nGen = [p |-> 0, rel |-> 0]
  /\ \E st \in FilterStores : persons = st[1] /\ relations = st[2]
  /\ pendingConnect = NoConnection
  /\ selectedNode = NoSelection
  /\ selectedEdge = NoSelection
  /\ dbPersons = {}
  /\ dbRelations = {}
  /\ calls = {}
  /\ load = [pc |-> "done", pData |-> Undef]
  /\ reading = {}
  /\ search = ""
  /\ proximityFilter = "all"
  /\ categoryFilter = <<>>
  /\ steps = 0
  /\ user = NoUser
  /\ loading = FALSE
  /\ lastOp = Op("mount", <<>>, "")

NextFilter ==
  \/ \E value \in SearchInputs : setSearch(value)
  \/ \E v \in Proximities \cup {"all"} : setProximityFilter(v)
  \/ \E cat \in FilterCategories, checked \in BOOLEAN : onCheckedChange(cat, checked)

SpecFilter == InitFilter /\ [][NextFilter]_vars

----------------------------------------------------------------------------
(* The claims about the filter. *)

Concat(parts) == join(parts, "")

ProximityPasses(p) == proximityFilter = "all" \/ proximityFilter = p.proximity

CategoryPasses(p) ==
  categoryFilter = <<>> \/ Range(p.categories) \cap Range(categoryFilter) # {}

TextOf(p) ==
  <<p.firstName, p.lastName, Coalesce(p.company, ""), Coalesce(p.comment, ""),
    p.proximity>> \o p.categories

Shown(p) == \E i \in 1..Len(filteredPersons) : filteredPersons[i] = p

\* C7 as stated: a person is shown exactly when the proximity filter is "all"
\* or its proximity, the category filter is empty or shares a category with
\* it, and the search text is empty or occurs, whatever the case, in its
\* fields put end to end.
C7_ShownIffInConcatenation ==
  \A i \in 1..Len(persons) :
    Shown(persons[i]) <=>
      /\ ProximityPasses(persons[i])
      /\ CategoryPasses(persons[i])
      /\ \/ search = ""
         \/ includes(toLowerCase(Concat(TextOf(persons[i]))), toLowerCase(search))

\* C7 as amended: a person is shown exactly when the proximity filter is "all"
\* or its proximity, the category filter is empty or shares a category with
\* it, and the search text without the blanks around it is empty or occurs,
\* whatever the case, in its fields joined by single blanks.
C7_ShownIffInJoinedFields ==
  \A i \in 1..Len(persons) :
    Shown(persons[i]) <=>
      /\ ProximityPasses(persons[i])
      /\ CategoryPasses(persons[i])
      /\ \/ trim(search) = ""
         \/ \E j \in 1..Len(join(TextOf(persons[i]), " ")) :
              \E k \in j..Len(join(TextOf(persons[i]), " ")) :
                toLowerCase(SubSeq(join(TextOf(persons[i]), " "), j, k))
                  = toLowerCase(trim(search))

\* "acme" is searched and the person of Acme Corp is shown, another is not
C7_Witness ==
  /\ search = "acme"
  /\ \E i \in 1..Len(persons) :
       /\ persons[i].company = Def("Acme Corp")
       /\ Shown(persons[i])
  /\ \E i \in 1..Len(persons) : ~Shown(persons[i])

Passing(id) ==
  \E i \in 1..Len(persons) :
    /\ persons[i].id = id
    /\ ProximityPasses(persons[i])
    /\ CategoryPasses(persons[i])
    /\ (term = "" \/ includes(hay(persons[i]), term))

ShownEdge(r) ==
  \E i \in 1..Len(initialEdges) :
    initialEdges[i] = [id |-> r.id, source |-> r.sourceId, target |-> r.targetId]

SourceAndTargetPass ==
  \A i \in 1..Len(relations) :
    ShownEdge(relations[i])
      <=> (Passing(relations[i].sourceId) /\ Passing(relations[i].targetId))

\* C8: a relation is shown exactly when its sourceId and its targetId are both
\* ids of persons that pass the filter, and no change of the filter takes a
\* person or a relation out of the store.
C8_ShownIffBothEndsPass ==
  /\ []SourceAndTargetPass
  /\ [][(lastOp'.op \in {"setSearch", "setProximityFilter", "setCategoryFilter"})
          => (persons' = persons /\ relations' = relations)]_vars

\* the filter is "fort" alone: the two persons of that proximity are shown, and
\* of the relations those between them only
C8_Witness ==
  /\ proximityFilter = "fort"
  /\ categoryFilter = <<>>
  /\ search = ""
  /\ Len(persons) = 5
  /\ Len(filteredPersons) = 2
  /\ Len(initialEdges) = 2
  /\ Len(relations) = 4

----------------------------------------------------------------------------
(* The claims about import, export and the backing store. *)

SetOf(s, F(_)) == {F(s[i]) : i \in 1..Len(s)}

\* the two tables hold the rows of the persons and relations of the store
DbHoldsStore ==
  /\ dbPersons = SetOf(persons, PersonRow)
  /\ dbRelations = SetOf(relations, RelationRow)

ImportSucceeded == lastOp.op = "readerOnload" /\ lastOp.toast = "Import réussi"

\* C11: after a successful import the backing store comes to hold exactly the
\* persons and relations of the store, the rows of the graph before being
\* removed and those of the import written.
C11_ImportResyncs == ImportSucceeded ~> DbHoldsStore

\* String.prototype.split, on a separator of one character
RECURSIVE split(_, _)
split(s, sep) ==
  IF \A i \in 1..Len(s) : CharAt(s, i) # sep THEN <<s>>
  ELSE LET i == CHOOSE k \in 1..Len(s) :
                  /\ CharAt(s, k) = sep
                  /\ \A j \in 1..(k - 1) : CharAt(s, j) # sep
       IN <<SubSeq(s, 1, i - 1)>> \o split(SubSeq(s, i + 1, Len(s)), sep)

\* the row exportExcel makes of a person as it would be with "," between the
\* categories
personRowCommas(p) ==
  PRow(Cell(p.id), Cell(p.firstName), Cell(p.lastName),
       Cell(Coalesce(p.company, "")), Cell(Coalesce(p.comment, "")),
       Cell(p.proximity), Cell(split(join(p.categories, ","), "|")),
       IF IsDef(p.position) THEN NumberCell(p.position[1]) ELSE StringCell(""),
       IF IsDef(p.position) THEN NumberCell(p.position[2]) ELSE StringCell(""))

\* the row exportExcel makes of a person, as the import reads it back: the
\* categories cell is the text join("|") wrote
personRow(p) ==
  PRow(Cell(p.id), Cell(p.firstName), Cell(p.lastName),
       Cell(Coalesce(p.company, "")), Cell(Coalesce(p.comment, "")),
       Cell(p.proximity), Cell(split(join(p.categories, "|"), "|")),
       IF IsDef(p.position) THEN NumberCell(p.position[1]) ELSE StringCell(""),
       IF IsDef(p.position) THEN NumberCell(p.position[2]) ELSE StringCell(""))

\* { ...r }
relationRow(r) == RRow(Cell(r.id), Cell(r.sourceId), Cell(r.targetId), Cell(r.proximity))

\* the workbook exportExcel writes
exportExcel ==
  Doc({"Persons", "Relations"}, MapSeq(persons, personRow), MapSeq(relations, relationRow))

\* the same relation
SameRelation(r, q) ==
  /\ r.id = q.id
  /\ r.sourceId = q.sourceId
  /\ r.targetId = q.targetId
  /\ r.proximity = q.proximity

\* the same person but for company and comment, the categories taken as a set
SamePersonButTexts(p, q) ==
  /\ p.id = q.id
  /\ p.firstName = q.firstName
  /\ p.lastName = q.lastName
  /\ p.proximity = q.proximity
  /\ p.position = q.position
  /\ Range(p.categories) = Range(q.categories)

\* C12 as stated: the import of what exportExcel writes gives as many persons
\* and relations as the store holds, each with the same id, names, company,
\* comment, proximity and position (relations: id, sourceId, targetId,
\* proximity), the categories being the same set.
C12_RoundTripKeepsFields ==
  LET ps == importedPersons(exportExcel)
      rs == importedRelations(exportExcel)
  IN /\ Len(ps) = Len(persons)
     /\ Len(rs) = Len(relations)
     /\ \A i \in 1..Len(persons) :
          /\ SamePersonButTexts(persons[i], ps[i])
          /\ persons[i].company = ps[i].company
          /\ persons[i].comment = ps[i].comment
     /\ \A i \in 1..Len(relations) : SameRelation(relations[i], rs[i])

\* C12 as amended: the same, but a company or a comment that is the empty text
\* comes back as no company or no comment.
C12_RoundTripKeepsFieldsButEmptyTexts ==
  LET ps == importedPersons(exportExcel)
      rs == importedRelations(exportExcel)
  IN /\ Len(ps) = Len(persons)
     /\ Len(rs) = Len(relations)
     /\ \A i \in 1..Len(persons) :
          /\ SamePersonButTexts(persons[i], ps[i])
          /\ ps[i].company = IF persons[i].company = Def("") THEN Undef
                             ELSE persons[i].company
          /\ ps[i].comment = IF persons[i].comment = Def("") THEN Undef
                             ELSE persons[i].comment
     /\ \A i \in 1..Len(relations) : SameRelation(relations[i], rs[i])

\* the store holds a relation and a person with a company, two categories and
\* a position, and one with neither company nor position
C12_Witness ==
  /\ relations # <<>>
  /\ \E i \in 1..Len(persons) :
       /\ Len(persons[i].categories) = 2
       /\ IsDef(persons[i].position)
       /\ persons[i].company = Def("Acme Corp")
       /\ importedPersons(exportExcel)[i] = persons[i]
  /\ \E i \in 1..Len(persons) :
       /\ ~IsDef(persons[i].position)
       /\ ~IsDef(persons[i].company)

\* C13: the proximity of every person and of every relation of the store is
\* fort, moyen or faible, an import row of another or of no proximity being
\* stored as moyen.
C13_ProximityIsOneOfThree ==
  /\ \A i \in 1..Len(persons) : persons[i].proximity \in Proximities
  /\ \A i \in 1..Len(relations) : relations[i].proximity \in Proximities

\* the person of that id in ps has the given value in the given field
HasField(ps, id, field, value) ==
  \A i \in 1..Len(ps) : ps[i].id = id => ps[i][field] = value

\* C14: the store has the change of every mutation (add, update, delete of a
\* person; add, update, delete of a relation; a new position) as soon as the
\* handler is called, before the call of the backing store is answered.
C14_LocalChangeAtOnce ==
  [][/\ lastOp'.op = "onAddPerson" =>
          (persons' # <<>> /\ Last(persons') = lastOp'.arg[1])
     /\ lastOp'.op = "onUpdatePerson" =>
          HasField(persons', lastOp'.arg[1], "firstName", lastOp'.arg[2].firstName)
     /\ lastOp'.op = "onDeletePerson" => lastOp'.arg[1] \notin PersonIds(persons')
     /\ lastOp'.op = "onNodeDragStop" =>
          HasField(persons', lastOp'.arg[1], "position", lastOp'.arg[2])
     /\ lastOp'.op = "commitConnection" =>
          (relations' # <<>> /\ Last(relations') = lastOp'.arg[1])
     /\ lastOp'.op = "changeRelationProximity" =>
          HasField(relations', lastOp'.arg[1], "proximity", lastOp'.arg[2])
     /\ lastOp'.op = "clickDeleteRelation" =>
          lastOp'.arg[1] \notin RelationIds(relations')]_vars

----------------------------------------------------------------------------
(* The hook useKnowledgeMapData (src/src/hooks/useKnowledgeMapData.ts): the   *)
(* persons and relations of the signed-in user.  Each of its mutations awaits *)
(* the backing store and changes the local arrays in its continuation.  A     *)
(* request is served by the backing store at one moment (the tables change    *)
(* and the answer is made) and the awaiting function runs on at a later one;  *)
(* the two requests of a Promise.all are served one by one, in any order.     *)

Users == {"u1", "u2"}

\* the rows of the tables with their owner
Owned(row, u) == Spread(row, [user_id |-> u])

HookSeedPersons ==
  {Owned(row, "u1") : row \in SeedPersons} \cup
  {[id |-> "y-1", first_name |-> "Yan", last_name |-> "Li", company |-> Undef,
    comment |-> Undef, proximity |-> "fort", position_x |-> Undef,
    position_y |-> Undef, categories |-> <<>>, user_id |-> "u2"]}

HookSeedRelations == {Owned(row, "u1") : row \in SeedRelations}

\* what the callers of the hook pass: the form's data, a proximity, a position,
\* and the id of a person shown or of one that is not
HookData == {DataMarie}
HookProximities == {"fort"}
HookIds == PersonIds(persons) \cup {"x-1"}

NotServed == <<>>
\* the second answer of a function that awaits one request only
NoRequest == <<[outcome |-> "ok", data |-> <<>>]>>

\* a request under way: what was asked, with what, after how many gestures,
\* and the answers to its one or two requests once served
Request(op, with, second) ==
  [op |-> op, with |-> with, at |-> steps, first |-> NotServed, second |-> second]

Answer(outcome, data) == <<[outcome |-> outcome, data |-> data]>>

Served(c) == c.first # NotServed /\ c.second # NotServed

\* the outcome of a served request
OutcomeOf(part) == part[1].outcome

Thrown(c) == OutcomeOf(c.first) = "throw" \/ OutcomeOf(c.second) = "throw"

\* ---- loadData and the session ----

\* loadData up to its await: the two selects of Promise.all
loadData(currentUser) == Request("load", [user |-> currentUser], NotServed)

\* initializeAuth after sb.auth.getSession() has answered: with an error,
\* without a session, or with the session of a user, or after it has thrown
getSessionReply(result) ==
  /\ \E c \in calls : c.op = "getSession"
  /\ user' = IF result \in Users THEN Def(result) ELSE user
  /\ loading' = IF result \in Users THEN loading ELSE FALSE
  /\ calls' = {c \in calls : c.op # "getSession"} \cup
              (IF result \in Users THEN {loadData(result)} ELSE {})
  /\ lastOp' = Op("getSessionReply", <<result>>, "")
  /\ UNCHANGED <<store, ui, db, load, reading, filters, nGen, steps>>

AuthEvents == {"SIGNED_IN", "TOKEN_REFRESHED", "SIGNED_OUT"}

\* the callback of sb.auth.onAuthStateChange, up to its await
onAuthStateChange(event, sessionUser) ==
  /\ Counted
  /\ \A c \in calls : c.op # "getSession"
  /\ (event = "SIGNED_OUT") = (sessionUser = NoUser)
  /\ event = "TOKEN_REFRESHED" => sessionUser = user
  /\ IF sessionUser # NoUser
     THEN /\ user' = sessionUser
          /\ IF event = "SIGNED_IN"
             THEN /\ calls' = calls \cup {loadData(sessionUser[1])}
                  /\ UNCHANGED loading
             ELSE /\ loading' = FALSE
                  /\ UNCHANGED calls
          /\ UNCHANGED store
     ELSE /\ user' = NoUser
          /\ persons' = <<>>
          /\ relations' = <<>>
          /\ loading' = FALSE
          /\ UNCHANGED calls
  /\ lastOp' = Op("onAuthStateChange", <<event, sessionUser>>, "")
  /\ UNCHANGED <<ui, db, load, reading, filters, nGen>>

\* ---- the mutations, up to their await ----

\* if (!user) { toast(...); return; }
NoUserReturn(op, arg, toast) ==
  /\ lastOp' = Op(op, arg, toast)
  /\ UNCHANGED <<store, ui, db, calls, load, reading, filters, session, nGen>>

\* what a mutation leaves alone when it sends its request
SendsOnly == UNCHANGED <<store, ui, db, load, reading, filters, session, nGen>>

addPerson(data) ==
  /\ Counted
  /\ IF user = NoUser
     THEN NoUserReturn("addPerson", <<data>>, "Utilisateur non connecté")
     ELSE /\ calls' = calls \cup
               {Request("insertPerson", [user_id |-> user[1], data |-> data], NoRequest)}
          /\ lastOp' = Op("addPerson", <<data>>, "")
          /\ SendsOnly

updatePerson(id, data) ==
  /\ Counted
  /\ IF user = NoUser
     THEN NoUserReturn("updatePerson", <<id, data>>, "Utilisateur non connecté")
     ELSE /\ calls' = calls \cup
               {Request("updatePerson",
                        [user_id |-> user[1], id |-> id, data |-> data], NoRequest)}
          /\ lastOp' = Op("updatePerson", <<id, data>>, "")
          /\ SendsOnly

deletePerson(id) ==
  /\ Counted
  /\ IF user = NoUser
     THEN NoUserReturn("deletePerson", <<id>>, "Utilisateur non connecté")
     ELSE /\ calls' = calls \cup
               {Request("deletePerson", [user_id |-> user[1], id |-> id], NotServed)}
          /\ lastOp' = Op("deletePerson", <<id>>, "")
          /\ SendsOnly

addRelation(sourceId, targetId, proximity) ==
  /\ Counted
  /\ IF user = NoUser
     THEN NoUserReturn("addRelation", <<sourceId, targetId, proximity>>,
                       "Utilisateur non connecté")
     ELSE /\ calls' = calls \cup
               {Request("insertRelation",
                        [user_id |-> user[1], source_id |-> sourceId,
                         target_id |-> targetId, proximity |-> proximity], NoRequest)}
          /\ lastOp' = Op("addRelation", <<sourceId, targetId, proximity>>, "")
          /\ SendsOnly

updatePersonPosition(id, position) ==
  /\ Counted
  /\ IF user = NoUser
     THEN NoUserReturn("updatePersonPosition", <<id, position>>, "")
     ELSE /\ calls' = calls \cup
               {Request("updatePosition",
                        [user_id |-> user[1], id |-> id, position |-> position],
                        NoRequest)}
          /\ lastOp' = Op("updatePersonPosition", <<id, position>>, "")
          /\ SendsOnly

\* ---- the backing store serves a request ----

Mine(row, c) == row.user_id = c.with.user_id

\* the row the insert of addPerson writes; the store gives the id
InsertedPerson(c) ==
  [id |-> genId("p"), user_id |-> c.with.user_id,
   first_name |-> c.with.data.firstName, last_name |-> c.with.data.lastName,
   company |-> c.with.data.company, comment |-> c.with.data.comment,
   proximity |-> c.with.data.proximity, position_x |-> Undef, position_y |-> Undef,
   categories |-> c.with.data.categories]

\* the row the insert of addRelation writes; the store gives the id
InsertedRelation(c) ==
  [id |-> genId("rel"), user_id |-> c.with.user_id, source_id |-> c.with.source_id,
   target_id |-> c.with.target_id, proximity |-> c.with.proximity]

\* whether the tables can take the request: the foreign keys of
\* knowledge_relations
HookDbAccepts(c, part) ==
  (c.op = "insertRelation") =>
    (c.with.source_id \in DbPersonIds /\ c.with.target_id \in DbPersonIds)

\* knowledge_persons after the request took effect
HookDbPersonsAfter(c, part) ==
  CASE c.op = "insertPerson" -> dbPersons \cup {InsertedPerson(c)}
    [] c.op = "updatePerson" ->
         {IF row.id = c.with.id /\ Mine(row, c)
          THEN [row EXCEPT !.first_name = c.with.data.firstName,
                           !.last_name = c.with.data.lastName,
                           !.company = c.with.data.company,
                           !.comment = c.with.data.comment,
                           !.proximity = c.with.data.proximity,
                           !.categories = c.with.data.categories]
          ELSE row : row \in dbPersons}
    [] c.op = "updatePosition" ->
         {IF row.id = c.with.id /\ Mine(row, c)
          THEN [row EXCEPT !.position_x = Def(c.with.position[1]),
                           !.position_y = Def(c.with.position[2])]
          ELSE row : row \in dbPersons}
    [] c.op = "deletePerson" /\ part = "first" ->
         {row \in dbPersons : ~(row.id = c.with.id /\ Mine(row, c))}
    [] OTHER -> dbPersons

\* knowledge_relations after the request took effect; the rows that reference
\* a deleted person row go with it
HookDbRelationsAfter(c, part) ==
  CASE c.op = "insertRelation" -> dbRelations \cup {InsertedRelation(c)}
    [] c.op = "deletePerson" /\ part = "first" ->
         IF \E row \in dbPersons : row.id = c.with.id /\ Mine(row, c)
         THEN {row \in dbRelations :
                 row.source_id # c.with.id /\ row.target_id # c.with.id}
         ELSE dbRelations
    [] c.op = "deletePerson" /\ part = "second" ->
         {row \in dbRelations :
            ~((row.source_id = c.with.id \/ row.target_id = c.with.id) /\ Mine(row, c))}
    [] OTHER -> dbRelations

\* the data of the answers that carry some: the rows of a select, in any
\* order, and the row an insert wrote (.select().single())
AnswerData(c, part) ==
  CASE c.op = "load" /\ part = "first" ->
         Orders({row \in dbPersons : row.user_id = c.with.user})
    [] c.op = "load" /\ part = "second" ->
         Orders({row \in dbRelations : row.user_id = c.with.user})
    [] c.op = "insertPerson" -> {<<InsertedPerson(c)>>}
    [] c.op = "insertRelation" -> {<<InsertedRelation(c)>>}
    [] OTHER -> {<<>>}

HookOutcomes == {"ok", "error", "throw"}

\* the backing store answers one request of c: it took effect ("ok"), it was
\* refused ("error"), or the promise rejects ("throw")
Serve(c, part, outcome) ==
  /\ c \in calls
  /\ c.op # "getSession"
  /\ c[part] = NotServed
  /\ outcome = "ok" => HookDbAccepts(c, part)
  /\ \E data \in (IF outcome = "ok" THEN AnswerData(c, part) ELSE {<<>>}) :
       calls' = (calls \ {c}) \cup {[c EXCEPT ![part] = Answer(outcome, data)]}
  /\ dbPersons' = IF outcome = "ok" THEN HookDbPersonsAfter(c, part) ELSE dbPersons
  /\ dbRelations' = IF outcome = "ok" THEN HookDbRelationsAfter(c, part) ELSE dbRelations
  /\ nGen' = IF outcome = "ok" /\ c.op = "insertPerson" THEN Bump("p")
             ELSE IF outcome = "ok" /\ c.op = "insertRelation" THEN Bump("rel")
             ELSE nGen
  /\ lastOp' = Op("serve", <<>>, "")
  /\ UNCHANGED <<store, ui, load, reading, filters, session, steps>>

\* ---- the awaiting function runs on ----

\* const newPerson
newPerson(c) ==
  [id |-> c.first[1].data[1].id, firstName |-> c.with.data.firstName,
   lastName |-> c.with.data.lastName, company |-> c.with.data.company,
   comment |-> c.with.data.comment, proximity |-> c.with.data.proximity,
   categories |-> c.with.data.categories, position |-> Undef]

\* const newRelation
newRelation(c) ==
  [id |-> c.first[1].data[1].id, sourceId |-> c.with.source_id,
   targetId |-> c.with.target_id, proximity |-> c.with.proximity]

Failed(c) == OutcomeOf(c.first) # "ok"

\* persons after the continuation of c as it would be if loadData added the
\* fetched rows to the persons already there
PersonsAfterMerging(c) ==
  CASE Thrown(c) -> persons
    [] c.op = "load" ->
         IF OutcomeOf(c.first) = "error" THEN persons
         ELSE persons \o MapSeq(c.first[1].data, PersonOfRow)
    [] Failed(c) -> persons
    [] c.op = "insertPerson" -> Append(persons, newPerson(c))
    [] c.op = "updatePerson" ->
         [i \in 1..Len(persons) |->
            IF persons[i].id = c.with.id THEN Spread(persons[i], c.with.data)
            ELSE persons[i]]
    [] c.op = "updatePosition" ->
         [i \in 1..Len(persons) |->
            IF persons[i].id = c.with.id
            THEN [persons[i] EXCEPT !.position = c.with.position] ELSE persons[i]]
    [] c.op = "deletePerson" ->
         SelectSeqBy(persons, {q \in Range(persons) : q.id # c.with.id})
    [] OTHER -> persons

\* persons after the continuation of c
PersonsAfter(c) ==
  CASE Thrown(c) -> persons
    [] c.op = "load" ->
         IF OutcomeOf(c.first) = "error" THEN persons
         ELSE MapSeq(c.first[1].data, PersonOfRow)
    [] Failed(c) -> persons
    [] c.op = "insertPerson" -> Append(persons, newPerson(c))
    [] c.op = "updatePerson" ->
         [i \in 1..Len(persons) |->
            IF persons[i].id = c.with.id THEN Spread(persons[i], c.with.data)
            ELSE persons[i]]
    [] c.op = "updatePosition" ->
         [i \in 1..Len(persons) |->
            IF persons[i].id = c.with.id
            THEN [persons[i] EXCEPT !.position = c.with.position] ELSE persons[i]]
    [] c.op = "deletePerson" ->
         SelectSeqBy(persons, {q \in Range(persons) : q.id # c.with.id})
    [] OTHER -> persons

\* relations after the continuation of c as it would be if deletePerson
\* returned on the error of its second request too
RelationsAfterBothNeeded(c) ==
  CASE Thrown(c) -> relations
    [] c.op = "load" ->
         IF OutcomeOf(c.second) = "error" THEN relations
         ELSE MapSeq(c.second[1].data, RelationOfRow)
    [] Failed(c) -> relations
    [] c.op = "insertRelation" -> Append(relations, newRelation(c))
    [] c.op = "deletePerson" ->
         IF OutcomeOf(c.second) = "error" THEN relations
         ELSE SelectSeqBy(relations,
                {r \in Range(relations) :
                   r.sourceId # c.with.id /\ r.targetId # c.with.id})
    [] OTHER -> relations

\* relations after the continuation of c
RelationsAfter(c) ==
  CASE Thrown(c) -> relations
    [] c.op = "load" ->
         IF OutcomeOf(c.second) = "error" THEN relations
         ELSE MapSeq(c.second[1].data, RelationOfRow)
    [] Failed(c) -> relations
    [] c.op = "insertRelation" -> Append(relations, newRelation(c))
    [] c.op = "deletePerson" ->
         SelectSeqBy(relations,
           {r \in Range(relations) : r.sourceId # c.with.id /\ r.targetId # c.with.id})
    [] OTHER -> relations

\* the notification the continuation of c shows last
ToastAfter(c) ==
  CASE c.op = "load" ->
         IF Thrown(c) THEN "Erreur lors du chargement des données"
         ELSE IF OutcomeOf(c.second) = "error" THEN "Impossible de charger les relations"
         ELSE IF OutcomeOf(c.first) = "error" THEN "Impossible de charger les personnes"
         ELSE ""
    [] c.op = "insertPerson" ->
         IF Thrown(c) THEN "Erreur lors de l'ajout"
         ELSE IF Failed(c) THEN "Impossible d'ajouter la personne"
         ELSE "Personne ajoutée"
    [] c.op = "updatePerson" ->
         IF Thrown(c) THEN "Erreur lors de la modification"
         ELSE IF Failed(c) THEN "Impossible de modifier la personne"
         ELSE "Modifié"
    [] c.op = "deletePerson" ->
         IF Thrown(c) THEN "Erreur lors de la suppression"
         ELSE IF Failed(c) THEN "Impossible de supprimer la personne"
         ELSE "Supprimé"
    [] c.op = "insertRelation" ->
         IF Thrown(c) THEN "Erreur lors de l'ajout du lien"
         ELSE IF Failed(c) THEN "Impossible d'ajouter le lien"
         ELSE "Lien ajouté"
    [] OTHER -> ""

\* the continuation as it would be if the caller of loadData did not set
\* loading to false
ResumeKeepsLoading(c) ==
  /\ c \in calls
  /\ c.op # "getSession"
  /\ Served(c)
  /\ calls' = calls \ {c}
  /\ persons' = PersonsAfter(c)
  /\ relations' = RelationsAfter(c)
  /\ lastOp' = Op("resume", <<c, Len(persons), Len(relations)>>, ToastAfter(c))
  /\ UNCHANGED <<ui, db, load, reading, filters, user, loading, nGen, steps>>

\* the function that awaited c runs to its end; after loadData its caller
\* sets loading to false
Resume(c) ==
  /\ c \in calls
  /\ c.op # "getSession"
  /\ Served(c)
  /\ calls' = calls \ {c}
  /\ persons' = PersonsAfter(c)
  /\ relations' = RelationsAfter(c)
  /\ loading' = IF c.op = "load" THEN FALSE ELSE loading
  /\ lastOp' = Op("resume", <<c, Len(persons), Len(relations)>>, ToastAfter(c))
  /\ UNCHANGED <<ui, db, load, reading, filters, user, nGen, steps>>

\* ---- the hook mounted ----

InitHook ==
  /\ persons = <<>>
  /\ relations = <<>>
  /\ user = NoUser
  /\ loading = TRUE
  /\ pendingConnect = NoConnection
  /\ selectedNode = NoSelection
  /\ selectedEdge = NoSelection
  /\ dbPersons = HookSeedPersons
  /\ dbRelations = HookSeedRelations
  /\ steps = 0
  /\ calls = {Request("getSession", <<>>, NoRequest)}
  /\ load = [pc |-> "done", pData |-> Undef]
  /\ reading = {}
  /\ search = ""
  /\ proximityFilter = "all"
  /\ categoryFilter = <<>>
  /\ nGen = [p |-> 0, rel |-> 0]
  /\ lastOp = Op("mount", <<>>, "")

NextHook ==
  \/ \E result \in Users \cup {"none", "error", "throw"} : getSessionReply(result)
  \/ \E event \in AuthEvents, sessionUser \in {NoUser} \cup {Def(u) : u \in Users} :
       onAuthStateChange(event, sessionUser)
  \/ \E data \in HookData : addPerson(data)
  \/ \E id \in HookIds, data \in HookData : updatePerson(id, data)
  \/ \E id \in HookIds : deletePerson(id)
  \/ \E sourceId, targetId \in HookIds, proximity \in HookProximities :
       addRelation(sourceId, targetId, proximity)
  \/ \E id \in HookIds, position \in DragPositions : updatePersonPosition(id, position)
  \/ \E c \in calls, part \in {"first", "second"}, outcome \in HookOutcomes :
       Serve(c, part, outcome)
  \/ \E c \in calls : Resume(c)

SpecHook == InitHook /\ [][NextHook]_vars

\* every call to sb.auth and to the backing store returns, and the function
\* that awaits it goes on
DeliverHook ==
  \/ \E result \in Users \cup {"none", "error", "throw"} : getSessionReply(result)
  \/ \E c \in calls, part \in {"first", "second"}, outcome \in HookOutcomes :
       Serve(c, part, outcome)
  \/ \E c \in calls : Resume(c)

SpecHookLive == SpecHook /\ WF_vars(DeliverHook)

----------------------------------------------------------------------------
(* The claims about the hook.                                                 *)

\* the request whose continuation was the last step
Resumed == lastOp.arg[1]

\* the last step was the continuation of a mutation whose request to the
\* backing store failed
FailedMutation ==
  /\ lastOp.op = "resume"
  /\ Resumed.op # "load"
  /\ (Failed(Resumed) \/ Thrown(Resumed))

\* what the mutation that sent c is to do to the local arrays
LocalEffect(c) ==
  CASE c.op = "insertPerson" ->
         \E q \in Range(persons) : \A f \in DOMAIN c.with.data : q[f] = c.with.data[f]
    [] c.op = "updatePerson" ->
         \A q \in Range(persons) :
           q.id = c.with.id => \A f \in DOMAIN c.with.data : q[f] = c.with.data[f]
    [] c.op = "updatePosition" ->
         \A q \in Range(persons) : q.id = c.with.id => q.position = c.with.position
    [] c.op = "deletePerson" ->
         /\ c.with.id \notin PersonIds(persons)
         /\ \A r \in Range(relations) : r.sourceId # c.with.id /\ r.targetId # c.with.id
    [] c.op = "insertRelation" ->
         \E r \in Range(relations) :
           /\ r.sourceId = c.with.source_id
           /\ r.targetId = c.with.target_id
           /\ r.proximity = c.with.proximity
    [] OTHER -> TRUE

\* C15: when the request of a mutation to the backing store has failed, the
\* local effect of the mutation is present all the same: the failure neither
\* undoes nor prevents the local change.
C15_FailureKeepsLocalChange == FailedMutation => LocalEffect(Resumed)

\* the mutations the hook gives its user
HookMutations ==
  {"addPerson", "updatePerson", "deletePerson", "addRelation", "updatePersonPosition"}

\* C16: with no signed-in user every mutation is rejected with the error that
\* a user is required: persons and relations stay as they are and no request
\* to the backing store is sent.
C16_NoUserRejects ==
  [][(user = NoUser /\ lastOp'.op \in HookMutations) =>
       /\ persons' = persons
       /\ relations' = relations
       /\ calls' = calls
       /\ lastOp'.toast = "Utilisateur non connecté"]_vars

\* no two elements of the sequence have the same id
UniqueIds(s) == \A i, j \in 1..Len(s) : s[i].id = s[j].id => i = j

\* C20: no two persons of the store have the same id and no two relations
\* have the same id, whatever adds, commits, imports and loads came before.
C20_IdsAreUnique == UniqueIds(persons) /\ UniqueIds(relations)

\* C17: in every state without a signed-in user the persons and relations
\* presented are empty, also when a load or an add that was sent while a user
\* was signed in runs on after the sign-out.
C17_NoUserNoData == user = NoUser => (persons = <<>> /\ relations = <<>>)

\* the last step was the continuation of loadData, both selects answered
\* with rows
Loaded ==
  /\ lastOp.op = "resume"
  /\ Resumed.op = "load"
  /\ OutcomeOf(Resumed.first) = "ok"
  /\ OutcomeOf(Resumed.second) = "ok"

\* C18: a load overwrites both local collections with what was fetched for
\* the user: when it has run, persons and relations are exactly the fetched
\* rows, each a row of that user, and nothing of what was there before is
\* kept.
C18_LoadOverwrites ==
  Loaded =>
    /\ Len(persons) = Len(Resumed.first[1].data)
    /\ \A i \in 1..Len(persons) :
         Owned(PersonRow(persons[i]), Resumed.with.user) = Resumed.first[1].data[i]
    /\ Len(relations) = Len(Resumed.second[1].data)
    /\ \A i \in 1..Len(relations) :
         Owned(RelationRow(relations[i]), Resumed.with.user) = Resumed.second[1].data[i]

\* a load of the signed-in user has run over persons and relations that were
\* not empty and has left fewer of each than there were
C18_Witness ==
  /\ Loaded
  /\ user = Def(Resumed.with.user)
  /\ Len(persons) > 0
  /\ lastOp.arg[2] > Len(persons)
  /\ lastOp.arg[3] > Len(relations)

\* the last step was the continuation of deletePerson: the person row was
\* deleted, the delete of the relation rows failed
PersonDeletedOnly ==
  /\ lastOp.op = "resume"
  /\ Resumed.op = "deletePerson"
  /\ OutcomeOf(Resumed.first) = "ok"
  /\ OutcomeOf(Resumed.second) = "error"

\* C19: when deletePerson deleted the person row but failed to delete the
\* relation rows, the person and every relation that references it are
\* removed from the local store all the same.
C19_PartialFailureCascades ==
  PersonDeletedOnly =>
    /\ Resumed.with.id \notin PersonIds(persons)
    /\ \A r \in Range(relations) :
         r.sourceId # Resumed.with.id /\ r.targetId # Resumed.with.id

\* such a deletePerson has taken a person and a relation out of the store
C19_Witness ==
  /\ PersonDeletedOnly
  /\ lastOp.arg[2] > Len(persons)
  /\ lastOp.arg[3] > Len(relations)

----------------------------------------------------------------------------
(* The claims about the form, the synchronisation and the owner of the rows.  *)

\* the data has a first name and a last name
BothNames(data) == data.firstName # "" /\ data.lastName # ""

\* C21: an add or an update of a person submitted with an empty first name or
\* an empty last name is rejected before anything is changed: onAddPerson and
\* onUpdatePerson run with both names only, and the rejected submit leaves
\* the store as it is, sends nothing to the backing store and notifies the
\* user.
C21_EmptyNameRejected ==
  [][/\ lastOp'.op = "onAddPerson" => BothNames(lastOp'.arg[1])
     /\ lastOp'.op = "onUpdatePerson" => BothNames(lastOp'.arg[2])
     /\ lastOp'.op = "PersonForm" =>
          /\ ~BothNames(lastOp'.arg[1])
          /\ persons' = persons
          /\ relations' = relations
          /\ calls' = calls
          /\ lastOp'.toast = "Champs requis"]_vars

\* a form without last name was rejected over a store that has persons
C21_Witness ==
  /\ lastOp.op = "PersonForm"
  /\ lastOp.arg[1].lastName = ""
  /\ Len(persons) > 0

\* the last step was no answer of the backing store that reports a failure
Succeeded ==
  /\ lastOp.op = "reply" => lastOp.arg[2] = "ok"
  /\ lastOp.op \in {"loadPersonsReply", "loadRelationsReply"} => lastOp.arg[1] = "ok"

\* nothing is under way: no call, no select of the load effect, no file read
Quiet == calls = {} /\ load.pc = "done" /\ reading = {}

\* C22: when every call of the backing store that was issued has succeeded
\* and none is under way, the rows of the backing store are exactly the local
\* persons and relations, whatever adds, updates, deletes, position changes,
\* imports and resets came before.
C22_QuietMeansInSync == []Succeeded => [](Quiet => DbHoldsStore)

\* C23: every delete of a person issues two operations of the backing store:
\* a delete of the person row with that id, and a delete of the relation rows
\* whose source_id or target_id is that id.
C23_DeleteIssuesTwo ==
  [][lastOp'.op = "onDeletePerson" =>
       /\ \E c \in calls' : c.op = "deletePerson" /\ c.with = lastOp'.arg[1]
       /\ \E c \in calls' : c.op = "deleteRelationsOf" /\ c.with = lastOp'.arg[1]]_vars

\* the columns named by the filter of a call of the component: .eq("id", ...)
\* and .in("id", ...) name the id, select("*") has no filter
Filters(op) ==
  CASE op \in {"updatePerson", "updatePosition", "deletePerson", "updateRelation",
               "deleteRelation", "resetPersons", "resetRelations"} -> {"id"}
    [] OTHER -> {}

\* the calls of the component under way, by name, the selects of the load
\* effect among them
UnderWay ==
  {c.op : c \in calls} \cup
  (IF load.pc = "persons" THEN {"selectPersons"}
   ELSE IF load.pc = "relations" THEN {"selectRelations"} ELSE {})

ReadsUpdatesDeletes ==
  {"selectPersons", "selectRelations", "updatePerson", "updatePosition", "deletePerson",
   "updateRelation", "deleteRelation", "resetPersons", "resetRelations"}

\* C24: every read, update and delete the client issues is scoped by the id
\* of the signed-in user as well as by the id of the row, so that no call can
\* read or change a row of another account.
C24_CallsScopedByOwner ==
  \A op \in UnderWay \cap ReadsUpdatesDeletes : "user_id" \in Filters(op)

\* C25: the update of a person changes only the person of that id: it keeps
\* its id and what the data does not name, and takes the values of the data;
\* every other person and every relation is as before, and when no person
\* has the id the store is unchanged.
C25_UpdateChangesOnePerson ==
  [][lastOp'.op = "onUpdatePerson" =>
       LET id == lastOp'.arg[1]
           data == lastOp'.arg[2]
       IN /\ Len(persons') = Len(persons)
          /\ \A i \in 1..Len(persons) :
               IF persons[i].id = id
               THEN /\ persons'[i].id = id
                    /\ persons'[i].position = persons[i].position
                    /\ \A f \in DOMAIN data : persons'[i][f] = data[f]
               ELSE persons'[i] = persons[i]
          /\ relations' = relations
          /\ id \notin PersonIds(persons) => persons' = persons]_vars

\* a person was updated in a store that has another person and a relation
C25_Witness ==
  /\ lastOp.op = "onUpdatePerson"
  /\ lastOp.arg[1] \in PersonIds(persons)
  /\ \E q \in Range(persons) : q.id # lastOp.arg[1]
  /\ relations # <<>>
  /\ \E q \in Range(persons) : q.id = lastOp.arg[1] /\ q.firstName = lastOp.arg[2].firstName

\* the insert of a relation between the pending pair is under way
InsertOfPendingUnderWay ==
  \E c \in calls :
    /\ c.op = "insertRelation"
    /\ c.with.source_id = pendingConnect.source
    /\ c.with.target_id = pendingConnect.target

\* C26: one connect gesture makes one relation at most: a choice of proximity
\* made again while the insert of the first choice is under way adds no second
\* relation for the same pending pair.
C26_OneRelationPerConnect ==
  [][(pendingConnect # NoConnection /\ InsertOfPendingUnderWay
        /\ lastOp'.op = "commitConnection") =>
       Len(relations') <= Len(relations)]_vars

----------------------------------------------------------------------------
(* The component that saves on every change (src/unnamed/part_000:456-657):   *)
(* persons and relations are the rows themselves; the load effect fetches     *)
(* them for the user, and two effects save persons, or relations, whenever    *)
(* they, the user id or the loading flag changed.  A save deletes the rows    *)
(* of the user and then inserts the list.  The handlers that change persons   *)
(* and relations are not part of this source: they are the steps that set     *)
(* another list.                                                              *)

SaveUser == "u1"

\* savePersons(persons, userId) up to its first await: the delete is issued
savePersons(list, userId) ==
  [op |-> "savePersons", list |-> list, user |-> userId, pc |-> "delete", at |-> steps]

\* saveRelations(relations, userId) up to its first await
saveRelations(list, userId) ==
  [op |-> "saveRelations", list |-> list, user |-> userId, pc |-> "delete", at |-> steps]

\* the effect on [persons, userId, loading], run after a render in which one
\* of them changed: the calls it starts
savePersonsEffect(changed, list, userId, isLoading) ==
  IF changed /\ userId # NoUser /\ ~isLoading THEN {savePersons(list, userId[1])} ELSE {}

\* the effect on [relations, userId, loading]
saveRelationsEffect(changed, list, userId, isLoading) ==
  IF changed /\ userId # NoUser /\ ~isLoading THEN {saveRelations(list, userId[1])} ELSE {}

\* what the steps of this component leave alone
SaveFrame == UNCHANGED <<ui, reading, filters>>

\* loadData after supabase.auth.getUser() has answered
getUserReply(result) ==
  /\ load.pc = "getUser"
  /\ IF result = "error"
     THEN /\ loading' = FALSE
          /\ load' = [load EXCEPT !.pc = "done"]
          /\ lastOp' = Op("getUserReply", <<result>>, "Non connecté")
          /\ UNCHANGED user
     ELSE /\ user' = Def(result)
          /\ load' = [load EXCEPT !.pc = "fetch"]
          /\ lastOp' = Op("getUserReply", <<result>>, "")
          /\ UNCHANGED loading
  /\ calls' = calls \cup savePersonsEffect(TRUE, persons, user', loading')
                    \cup saveRelationsEffect(TRUE, relations, user', loading')
  /\ SaveFrame
  /\ UNCHANGED <<store, db, nGen, steps>>

\* fetchPersons after its await: the rows, or [] after an error
fetchPersonsReply(outcome, rows) ==
  /\ load.pc = "fetch"
  /\ load.p = NotServed
  /\ load' = [load EXCEPT !.p = Answer(outcome, IF outcome = "ok" THEN rows ELSE <<>>)]
  /\ lastOp' = Op("fetchPersonsReply", <<outcome>>,
                  IF outcome = "ok" THEN "" ELSE "Erreur Supabase")
  /\ SaveFrame
  /\ UNCHANGED <<store, db, calls, session, nGen, steps>>

\* fetchRelations after its await
fetchRelationsReply(outcome, rows) ==
  /\ load.pc = "fetch"
  /\ load.r = NotServed
  /\ load' = [load EXCEPT !.r = Answer(outcome, IF outcome = "ok" THEN rows ELSE <<>>)]
  /\ lastOp' = Op("fetchRelationsReply", <<outcome>>,
                  IF outcome = "ok" THEN "" ELSE "Erreur Supabase")
  /\ SaveFrame
  /\ UNCHANGED <<store, db, calls, session, nGen, steps>>

\* loadData after Promise.all: setPersons, setRelations, setLoading(false)
\* and the two effects of the render that follows, for which persons,
\* relations and loading have all changed
loadDataEnds ==
  /\ load.pc = "fetch"
  /\ load.p # NotServed
  /\ load.r # NotServed
  /\ persons' = load.p[1].data
  /\ relations' = load.r[1].data
  /\ loading' = FALSE
  /\ load' = [load EXCEPT !.pc = "done"]
  /\ calls' = calls \cup savePersonsEffect(TRUE, persons', user, FALSE)
                   \cup saveRelationsEffect(TRUE, relations', user, FALSE)
  /\ lastOp' = Op("loadDataEnds", <<calls>>, "")
  /\ SaveFrame
  /\ UNCHANGED <<user, db, nGen, steps>>

\* the row of a person a handler adds
AddedPersonRow == Owned(PersonRow(Spread([id |-> genId("p"), position |-> Undef], DataMarie)),
                        SaveUser)

\* the row of a relation a handler adds, between two persons shown
AddedRelationRow(source, target) ==
  [id |-> genId("rel"), source_id |-> source, target_id |-> target,
   proximity |-> "fort", user_id |-> SaveUser]

\* a handler sets another list of persons; the page shows no handler while
\* loading
setPersonsTo(list) ==
  /\ Counted
  /\ ~loading
  /\ persons' = list
  /\ calls' = calls \cup savePersonsEffect(TRUE, list, user, loading)
  /\ nGen' = IF Len(list) > Len(persons) THEN Bump("p") ELSE nGen
  /\ lastOp' = Op("setPersons", <<list>>, "")
  /\ SaveFrame
  /\ UNCHANGED <<relations, db, load, session>>

\* a handler sets another list of relations
setRelationsTo(list) ==
  /\ Counted
  /\ ~loading
  /\ relations' = list
  /\ calls' = calls \cup saveRelationsEffect(TRUE, list, user, loading)
  /\ nGen' = IF Len(list) > Len(relations) THEN Bump("rel") ELSE nGen
  /\ lastOp' = Op("setRelations", <<list>>, "")
  /\ SaveFrame
  /\ UNCHANGED <<persons, db, load, session>>

\* the lists a handler can set: one row more, or one row less
PersonLists ==
  {Append(persons, AddedPersonRow)} \cup
  {SelectSeqBy(persons, Range(persons) \ {row}) : row \in Range(persons)}

RelationLists ==
  {Append(relations, AddedRelationRow(p.id, q.id)) :
     p \in {persons[i] : i \in 1..(IF persons = <<>> THEN 0 ELSE 1)},
     q \in {persons[i] : i \in (IF persons = <<>> THEN {} ELSE {Len(persons)})}} \cup
  {SelectSeqBy(relations, Range(relations) \ {row}) : row \in Range(relations)}

\* whether the tables can take the insert of a save: the primary key, and the
\* foreign keys of knowledge_relations
SaveDbAccepts(c) ==
  IF c.op = "savePersons"
  THEN {c.list[i].id : i \in 1..Len(c.list)} \cap DbPersonIds = {}
  ELSE /\ {c.list[i].id : i \in 1..Len(c.list)} \cap DbRelationIds = {}
       /\ \A i \in 1..Len(c.list) :
            c.list[i].source_id \in DbPersonIds /\ c.list[i].target_id \in DbPersonIds

\* the delete of a save has been answered; the save returns when its list is
\* empty and issues its insert otherwise.  The answer is not looked at.
deleteReply(c, outcome) ==
  /\ c \in calls
  /\ c.pc = "delete"
  /\ LET gone == IF outcome = "ok" /\ c.op = "savePersons"
                 THEN {row.id : row \in {r \in dbPersons : r.user_id = c.user}}
                 ELSE {}
     IN /\ dbPersons' = {row \in dbPersons : row.id \notin gone}
        /\ dbRelations' =
             {row \in dbRelations :
                /\ row.source_id \notin gone
                /\ row.target_id \notin gone
                /\ ~(outcome = "ok" /\ c.op = "saveRelations" /\ row.user_id = c.user)}
  /\ calls' = (calls \ {c}) \cup
              (IF c.list = <<>> THEN {} ELSE {[c EXCEPT !.pc = "insert"]})
  /\ lastOp' = Op("deleteReply", <<c, outcome, TRUE>>, "")
  /\ SaveFrame
  /\ UNCHANGED <<store, load, session, nGen, steps>>

\* the insert of a save has been answered
insertReply(c, outcome) ==
  /\ c \in calls
  /\ c.pc = "insert"
  /\ outcome = "ok" => SaveDbAccepts(c)
  /\ dbPersons' = IF outcome = "ok" /\ c.op = "savePersons"
                  THEN dbPersons \cup {Owned(c.list[i], c.user) : i \in 1..Len(c.list)}
                  ELSE dbPersons
  /\ dbRelations' = IF outcome = "ok" /\ c.op = "saveRelations"
                    THEN dbRelations \cup {Owned(c.list[i], c.user) : i \in 1..Len(c.list)}
                    ELSE dbRelations
  /\ calls' = calls \ {c}
  /\ lastOp' = Op("insertReply", <<c, outcome, SaveDbAccepts(c)>>,
                  IF outcome = "ok" THEN "" ELSE "Erreur Supabase")
  /\ SaveFrame
  /\ UNCHANGED <<store, load, session, nGen, steps>>

InitSave ==
  /\ persons = <<>>
  /\ relations = <<>>
  /\ user = NoUser
  /\ loading = TRUE
  /\ pendingConnect = NoConnection
  /\ selectedNode = NoSelection
  /\ selectedEdge = NoSelection
  /\ dbPersons = HookSeedPersons
  /\ dbRelations = HookSeedRelations
  /\ steps = 0
  /\ calls = {}
  /\ load = [pc |-> "getUser", p |-> NotServed, r |-> NotServed]
  /\ reading = {}
  /\ search = ""
  /\ proximityFilter = "all"
  /\ categoryFilter = <<>>
  /\ nGen = [p |-> 0, rel |-> 0]
  /\ lastOp = Op("mount", <<>>, "")

NextSave ==
  \/ \E result \in {SaveUser, "error"} : getUserReply(result)
  \/ \E outcome \in {"ok", "error"},
        rows \in Orders({row \in dbPersons : row.user_id = SaveUser}) :
       fetchPersonsReply(outcome, rows)
  \/ \E outcome \in {"ok", "error"},
        rows \in Orders({row \in dbRelations : row.user_id = SaveUser}) :
       fetchRelationsReply(outcome, rows)
  \/ loadDataEnds
  \/ \E list \in PersonLists : setPersonsTo(list)
  \/ \E list \in RelationLists : setRelationsTo(list)
  \/ \E c \in calls, outcome \in {"ok", "error"} : deleteReply(c, outcome)
  \/ \E c \in calls, outcome \in {"ok", "error"} : insertReply(c, outcome)

\* the continuations the event loop runs
DeliverSave ==
  \/ \E result \in {SaveUser, "error"} : getUserReply(result)
  \/ \E outcome \in {"ok", "error"},
        rows \in Orders({row \in dbPersons : row.user_id = SaveUser}) :
       fetchPersonsReply(outcome, rows)
  \/ \E outcome \in {"ok", "error"},
        rows \in Orders({row \in dbRelations : row.user_id = SaveUser}) :
       fetchRelationsReply(outcome, rows)
  \/ loadDataEnds
  \/ \E c \in calls, outcome \in {"ok", "error"} : deleteReply(c, outcome)
  \/ \E c \in calls, outcome \in {"ok", "error"} : insertReply(c, outcome)

SpecSave == InitSave /\ [][NextSave]_vars /\ WF_vars(DeliverSave)

----------------------------------------------------------------------------
(* The claims about the save on change.                                       *)

\* C27: the end of the initial load triggers no save: savePersons and
\* saveRelations are not called because the load has finished, only by later
\* changes of persons or relations.
C27_LoadTriggersNoSave == [][lastOp'.op = "loadDataEnds" => calls' = calls]_vars

\* the fetch answered with an error
FetchFailed(answer) == answer # NotServed /\ answer[1].outcome = "error"

\* C28: a failed initial fetch of persons or of relations never leads to a
\* delete of the rows of the user: what could not be read is still in the
\* backing store afterwards (here: as long as the user has changed nothing).
C28_FailedFetchDeletesNothing ==
  steps = 0 =>
    /\ FetchFailed(load.p) =>
         {row \in HookSeedPersons : row.user_id = SaveUser} \subseteq dbPersons
    /\ FetchFailed(load.r) =>
         {row \in HookSeedRelations : row.user_id = SaveUser} \subseteq dbRelations

\* the last step was no answer that reports a failure the overlapping saves
\* did not cause themselves
NothingFailedOutside ==
  /\ lastOp.op \in {"fetchPersonsReply", "fetchRelationsReply"} => lastOp.arg[1] = "ok"
  /\ lastOp.op = "getUserReply" => lastOp.arg[1] # "error"
  /\ lastOp.op \in {"deleteReply", "insertReply"} =>
       (lastOp.arg[2] = "ok" \/ ~lastOp.arg[3])

\* the load has ended and no savePersons is under way
PersonSavesDone ==
  /\ load.pc = "done"
  /\ user # NoUser
  /\ \A c \in calls : c.op # "savePersons"

\* C29: when persons changed several times while earlier saves were under
\* way, then once every savePersons has ended the rows of the user in the
\* backing store are exactly the latest local list, whatever the order of
\* the deletes and inserts of the overlapping saves.
C29_LastSaveWins ==
  []NothingFailedOutside =>
    [](PersonSavesDone =>
         {row \in dbPersons : row.user_id = SaveUser} = Range(persons))

----------------------------------------------------------------------------
(* The claim about the loading flag of the hook.                              *)

\* C30: after the hook is mounted the loading flag becomes false at some
\* point, whether getSession reports an error, finds no session or throws,
\* and whether loadData succeeds, fails or throws, provided every call to
\* sb.auth and to the backing store returns.
C30_LoadingEnds == <>(loading = FALSE)

\* loadData has thrown and its caller has set loading to false
C30_Witness ==
  /\ lastOp.op = "resume"
  /\ Resumed.op = "load"
  /\ Thrown(Resumed)
  /\ loading = FALSE

====
